---- MODULE Spec2Model ----
(***************************************************************************)
(* Model of cognito-export: the cursor-following fetch (pagedAWSCall), the *)
(* inventory caches (listUserPools, listIdentityPools), the user           *)
(* enumeration with its attribute downgrade (getAllUsers) and the two      *)
(* entry points' main: classification of user pools and identity pools,    *)
(* the four snapshot files and the retirement loops.                       *)
(*                                                                         *)
(* The program is one sequential async control flow.  Every await of a     *)
(* remote call is one action, and the backend's answer is drawn there.     *)
(* The backend is lazy: what it holds is revealed page by page, and        *)
(* `served` / `usersServed` remember what it has handed out during the     *)
(* fetch in progress.  `calls` logs the calls of the retirement loops.     *)
(*                                                                         *)
(* Encodings.  A JavaScript string is a sequence of tokens (<<"a","/",     *)
(* "1">>), so that startsWith / endsWith are computed on it.  An optional  *)
(* field is a flag or an empty value: isPrepareToDelete FALSE is "not      *)
(* set" (the code only tests its truthiness), reasonDelete <<>> is "not    *)
(* set", poolUsers is <<>> when not set and <<list>> when set.  A cursor   *)
(* is a positive number, NoToken is undefined.                             *)
(***************************************************************************)
EXTENDS Integers, Sequences, FiniteSets, TLC

(***************************************************************************)
(* Bounds of the backend                                                   *)
(***************************************************************************)
MaxPools == 2

MaxIdentityPools == 1

MaxPages == 3

MaxUserPages == 2

MaxUsers == 2

MaxProviders == 2
\* Calls of each listing function by one caller of the inventory cache.
MaxListCalls == 2

(***************************************************************************)
(* Values                                                                  *)
(***************************************************************************)
NoToken == 0

EntryPoints == {"index", "part_000"}

UserStatuses == {"FORCE_CHANGE_PASSWORD", "CONFIRMED"}

ReasonEmptyUsers == <<"Is empty users">>

ReasonAllForceChange == <<"Is all users force change password">>

ReasonProvidersEmpty == <<"CognitoIdentityProviders empty">>

AttributesError == [name |-> "InvalidParameterException", message |-> "One or more requested attributes do not exist"]

OtherError == [name |-> "ServiceError", message |-> "remote call failed"]

OtherInvalidParameter == [name |-> "InvalidParameterException", message |-> "Invalid pagination token"]

SpreadError == [name |-> "TypeError", message |-> "cognitoUsers is not iterable"]

ProvidersError == [name |-> "TypeError", message |-> "Cannot read property length of undefined"]

\* The rejection of a describe call for a resource that is gone.
NotFoundError == [name |-> "ResourceNotFoundException", message |-> "Resource not found"]

\* What a describe call may reject with.
DescribeErrors == {OtherError, NotFoundError}

NoError == [name |-> "", message |-> ""]

VARIABLES
  entry,                 \* which entry point's main runs
  pc,                    \* position of main
  error,                 \* the error main rejected with (NoError while running)
  calls,                 \* the executor's call sequence: the remote calls of the retirement loops, in issue order
  pagedPc,               \* pagedAWSCall: "idle", "loop", "done" or "rejected"
  result,                \* pagedAWSCall: result
  nextToken,             \* pagedAWSCall: nextToken
  served,                \* backend: the exchanges of the pagedAWSCall in progress
  cachedUserPoolIds,     \* module-level cache; main's `pools` is this array
  cachedIdentityPoolIds, \* module-level cache; main's `identityPools` is this array
  poolIdx,               \* user-pool loop: index of the pool being processed
  accumedUsers,          \* getAllUsers: accumedUsers
  includeCustomAttrs,    \* getAllUsers: includeCustomAttrs
  pageToken,             \* getAllUsers: pageToken
  usersServed,           \* backend: the user pages handed out in this enumeration
  downgradedFrom,        \* history: the arguments of each call of this enumeration that downgraded
  poolUsers,             \* main: poolUsers, the value getAllUsers resolved with
  sawOtherStatus,        \* history: pool ids whose enumeration returned a user not in FORCE_CHANGE_PASSWORD
  enumFailed,            \* history: pool ids whose enumeration threw
  enumEmpty,             \* history: pool ids whose enumeration returned no user
  files,                 \* the snapshot files written so far (<<>> : not written, <<content>> : written)
  deletePools,           \* main: deletePools
  realPools,             \* main: realPools
  ipIdx,                 \* identity-pool loop: number of identity pools processed
  response,              \* identity-pool loop: response of the last describeIdentityPool
  multiProvider,         \* history: identity pool ids described with two or more providers
  deleteIdentityPools,   \* main: deleteIdentityPools
  delIdx,                \* retirement: number of deletePools entries retired
  idDelIdx,              \* retirement: number of deleteIdentityPools entries retired
  deleteUP,              \* retirement: Domain of the last describeUserPool response
  retiringDomain,        \* backend: the domain the user pool under retirement had when its retirement began
  listCalls,             \* history: how often each listing function was called
  fetches,               \* history: how often each listing function drained the backend
  memo,                  \* scrubbedEmailMemo: the cache of memoize, keyed by the email
  identities,            \* history: every (caller, email, identity) the memoized transform returned
  scrubbed               \* the last scrubPoolUser/scrubMember call: function, input, identity, output

pagedVars == <<pagedPc, result, nextToken, served>>

cacheVars == <<cachedUserPoolIds, cachedIdentityPoolIds>>

enumVars == <<accumedUsers, includeCustomAttrs, pageToken, usersServed, downgradedFrom>>

histVars == <<sawOtherStatus, enumFailed, enumEmpty, multiProvider>>

snapVars == <<files, deletePools, realPools, deleteIdentityPools>>

identityVars == <<ipIdx, response>>

retireVars == <<delIdx, idDelIdx, deleteUP, retiringDomain>>

inventoryVars == <<listCalls, fetches>>

scrubVars == <<memo, identities, scrubbed>>

vars == <<entry, pc, error, calls, poolIdx, poolUsers, pagedVars, cacheVars,
          enumVars, histVars, snapVars, identityVars, retireVars, inventoryVars,
          scrubVars>>

Last(s) == s[Len(s)]

(***************************************************************************)
(* Array concatenation                                                     *)
(***************************************************************************)
RECURSIVE Flatten(_)
Flatten(ss) == IF ss = <<>> THEN <<>> ELSE Head(ss) \o Flatten(Tail(ss))

(***************************************************************************)
(* pagedAWSCall                                                            *)
(***************************************************************************)
\* One page as the action resolves it.  defined = FALSE is a falsy response;
\* hasItems = FALSE is a response whose item collection is absent.
Page(defined, hasItems, items, token) == [defined |-> defined, hasItems |-> hasItems, items |-> items, NextToken |-> token]

\* accessor(response): the item collection, <<>> standing for undefined when absent.
Accessor(page) == IF page.hasItems THEN page.items ELSE <<>>

\* Accumulate with the page assigned instead of concatenated.
AccumulateAssign(res, page) == IF page.defined /\ page.hasItems THEN Accessor(page) ELSE res

\* if (response && accessor(response)) result = result.concat(accessor(response))
Accumulate(res, page) == IF page.defined /\ page.hasItems THEN res \o Accessor(page) ELSE res

\* GetNextToken giving up the cursor of a page that carries no item.
GetNextTokenOfItems(page) == IF page.defined /\ Len(Accessor(page)) > 0 THEN page.NextToken ELSE NoToken

\* nextToken = response ? await getNextToken(response, result) : undefined
GetNextToken(page) == IF page.defined THEN page.NextToken ELSE NoToken

\* while (!!nextToken)
LoopAgain(token) == token # NoToken

\* A remote call as the log keeps it: the operation, the resource it names and
\* whether it resolved.
Call(op, id, ok) == [op |-> op, id |-> id, ok |-> ok]

UserPoolId(k) == "pool" \o ToString(k)

IdentityPoolId(k) == "idpool" \o ToString(k)

\* A user pool as listUserPools returns it: no verdict field is set.
UserPoolRecord(k) == [Id |-> UserPoolId(k), isPrepareToDelete |-> FALSE, reasonDelete |-> <<>>, poolUsers |-> <<>>]

\* An identity pool as listIdentityPools returns it.
IdentityPoolRecord(k) == [IdentityPoolId |-> IdentityPoolId(k), isPrepareToDelete |-> FALSE, reasonDelete |-> <<>>]

\* The k-th resource of the listing op.
ListedRecord(op, k) == IF op = "listUserPools" THEN UserPoolRecord(k) ELSE IdentityPoolRecord(k)

ServedItems == Flatten([k \in DOMAIN served |-> served[k].resp.items])

\* What the backend may answer to the next listing call: a falsy response, or a
\* page with the next n resources (or no item collection at all) and, while the
\* listing has pages left, possibly a cursor.
BackendPages(op, max) ==
  {Page(FALSE, FALSE, <<>>, NoToken)} \cup
  { Page(TRUE, hasItems, [k \in 1..n |-> ListedRecord(op, Len(ServedItems) + k)],
         IF more THEN Len(served) + 2 ELSE NoToken) :
      <<n, hasItems, more>> \in
        { t \in (0..(max - Len(ServedItems))) \X BOOLEAN \X BOOLEAN :
            /\ (~t[2] => t[1] = 0)
            /\ (t[3] => Len(served) + 1 < MaxPages) } }

ListingPages == IF pc = "listUserPools" THEN BackendPages(pc, MaxPools) ELSE BackendPages(pc, MaxIdentityPools)

\* One iteration of the do-loop: the action resolves.
PagedAWSCallPage ==
  /\ pc \in {"listUserPools", "listIdentityPools"}
  /\ pagedPc = "loop"
  /\ \E page \in ListingPages :
       /\ served' = Append(served, [req |-> nextToken, resp |-> page])
       /\ result' = Accumulate(result, page)
       /\ nextToken' = GetNextToken(page)
       /\ pagedPc' = IF LoopAgain(GetNextToken(page)) THEN "loop" ELSE "done"
  /\ UNCHANGED <<inventoryVars, scrubVars, entry, pc, error, calls, poolIdx, poolUsers, cacheVars, enumVars, histVars,
                 snapVars, identityVars, retireVars>>

\* PagedAWSCallReject with the rejection swallowed and the page asked for again.
PagedAWSCallRejectRetry ==
  /\ pc \in {"listUserPools", "listIdentityPools"}
  /\ pagedPc = "loop"
  /\ error' = OtherError
  /\ UNCHANGED <<inventoryVars, scrubVars, entry, pc, calls, poolIdx, poolUsers, pagedVars,
                 cacheVars, enumVars, histVars, snapVars, identityVars, retireVars>>

\* One iteration of the do-loop: the action rejects.  Nothing catches it in
\* pagedAWSCall, listUserPools / listIdentityPools or main.
PagedAWSCallReject ==
  /\ pc \in {"listUserPools", "listIdentityPools"}
  /\ pagedPc = "loop"
  /\ pagedPc' = "rejected"
  /\ error' = OtherError
  /\ pc' = "aborted"
  /\ UNCHANGED <<inventoryVars, scrubVars, entry, calls, poolIdx, poolUsers, result, nextToken, served, cacheVars,
                 enumVars, histVars, snapVars, identityVars, retireVars>>

(***************************************************************************)
(* listUserPools and the start of main                                     *)
(***************************************************************************)
\* The two listings the inventory cache serves.
ListOps == {"listUserPools", "listIdentityPools"}

\* if (cachedUserPoolIds.length === 0), if (cachedIdentityPoolIds.length === 0):
\* the stored array being empty is what says that nothing was fetched yet.
IsUnfetched(cache) == Len(cache) = 0

\* One more call, or one more drain of the backend, of the listing op.
Counted(counts, op) == [counts EXCEPT ![op] = @ + 1]

\* main calls listUserPools: the cache is drained from the backend when empty.
MainStart ==
  /\ pc = "start"
  /\ listCalls' = Counted(listCalls, "listUserPools")
  /\ IF IsUnfetched(cachedUserPoolIds)
       THEN /\ pc' = "listUserPools"
            /\ fetches' = Counted(fetches, "listUserPools")
            /\ pagedPc' = "loop"
            /\ result' = <<>>
            /\ nextToken' = NoToken
            /\ served' = <<>>
       ELSE /\ pc' = "userLoop"
            /\ UNCHANGED <<fetches, pagedPc, result, nextToken, served>>
  /\ poolIdx' = 0
  /\ UNCHANGED <<scrubVars, entry, error, calls, poolUsers, cacheVars, enumVars, histVars,
                 snapVars, identityVars, retireVars>>

\* cachedUserPoolIds.push(...result); return cachedUserPoolIds
ListUserPoolsReturn ==
  /\ pc = "listUserPools"
  /\ pagedPc = "done"
  /\ cachedUserPoolIds' = cachedUserPoolIds \o result
  /\ pagedPc' = "idle"
  /\ result' = <<>>
  /\ served' = <<>>
  /\ pc' = "userLoop"
  /\ UNCHANGED <<inventoryVars, scrubVars, entry, error, calls, poolIdx, poolUsers, nextToken,
                 cachedIdentityPoolIds, enumVars, histVars, snapVars, identityVars,
                 retireVars>>

\* main's `pools` is the cached array itself: classification writes into it.
pools == cachedUserPoolIds

(***************************************************************************)
(* getAllUsers                                                             *)
(***************************************************************************)
UsersOf(pages) == Flatten([k \in DOMAIN pages |-> pages[k].Users])

\* The pages listUsers may resolve with: some of the pool's remaining users, of
\* any status, and, while the pool has pages left, possibly a PaginationToken.
BackendUserPages ==
  { [Users |-> us, PaginationToken |-> IF more THEN Len(usersServed) + 2 ELSE NoToken] :
      <<us, more>> \in
        { t \in (UNION {[1..n -> [UserStatus : UserStatuses]] : n \in 0..(MaxUsers - Len(UsersOf(usersServed)))}) \X BOOLEAN :
            t[2] => Len(usersServed) + 1 < MaxUserPages } }

\* The arguments of a call of getAllUsers.
GetAllUsersArgs(accumed, attrs, token) == [accumedUsers |-> accumed, includeCustomAttrs |-> attrs, pageToken |-> token]

\* return getAllUsers(poolId, [...accumedUsers, ...cognitoUsers], includeCustomAttrs, nextPageToken)
NextPageArgs(accumed, attrs, page) == GetAllUsersArgs(accumed \o page.Users, attrs, page.PaginationToken)

\* DowngradeArgs restarting the enumeration from its first page.
DowngradeArgsRestart(accumed, token) == GetAllUsersArgs(<<>>, FALSE, NoToken)

\* return getAllUsers(poolId, accumedUsers, false, pageToken)
DowngradeArgs(accumed, token) == GetAllUsersArgs(accumed, FALSE, token)

\* IsDowngradable without the test of includeCustomAttrs.
IsDowngradableAnyTime(attrs, err) == err.name = "InvalidParameterException" /\ err.message = "One or more requested attributes do not exist"

\* The catch of getAllUsers: is this the error the downgrade is for?
IsDowngradable(attrs, err) == attrs /\ err.name = "InvalidParameterException" /\ err.message = "One or more requested attributes do not exist"

\* UserLoopNext leaving the loop after the first pool.
UserLoopNextOnce ==
  /\ pc = "userLoop"
  /\ IF poolIdx < Len(pools) /\ poolIdx < 1
       THEN /\ poolIdx' = poolIdx + 1
            /\ accumedUsers' = <<>>
            /\ includeCustomAttrs' = TRUE
            /\ pageToken' = NoToken
            /\ usersServed' = <<>>
            /\ downgradedFrom' = <<>>
            /\ pc' = "getAllUsers"
       ELSE /\ pc' = "snapshotUserPools"
            /\ UNCHANGED <<poolIdx, enumVars>>
  /\ UNCHANGED <<inventoryVars, scrubVars, entry, error, calls, poolUsers, pagedVars, cacheVars,
                 histVars, snapVars, identityVars, retireVars>>

\* for (const pool of pools): the next pool, or the end of the loop.
UserLoopNext ==
  /\ pc = "userLoop"
  /\ IF poolIdx < Len(pools)
       THEN /\ poolIdx' = poolIdx + 1
            /\ accumedUsers' = <<>>
            /\ includeCustomAttrs' = TRUE
            /\ pageToken' = NoToken
            /\ usersServed' = <<>>
            /\ downgradedFrom' = <<>>
            /\ pc' = "getAllUsers"
       ELSE /\ pc' = "snapshotUserPools"
            /\ UNCHANGED <<poolIdx, enumVars>>
  /\ UNCHANGED <<inventoryVars, scrubVars, entry, error, calls, poolUsers, pagedVars, cacheVars, histVars,
                 snapVars, identityVars, retireVars>>

\* listUsers resolves with a page: recurse on its token, or resolve with the users.
GetAllUsersPage ==
  /\ pc = "getAllUsers"
  /\ \E page \in BackendUserPages :
       /\ usersServed' = Append(usersServed, page)
       /\ IF page.PaginationToken # NoToken
            THEN LET args == NextPageArgs(accumedUsers, includeCustomAttrs, page)
                 IN /\ accumedUsers' = args.accumedUsers
                    /\ includeCustomAttrs' = args.includeCustomAttrs
                    /\ pageToken' = args.pageToken
                    /\ UNCHANGED <<pc, poolUsers>>
            ELSE /\ poolUsers' = accumedUsers \o page.Users
                 /\ pc' = "classify"
                 /\ UNCHANGED <<accumedUsers, includeCustomAttrs, pageToken>>
  /\ UNCHANGED <<inventoryVars, scrubVars, entry, error, calls, poolIdx, downgradedFrom, pagedVars, cacheVars,
                 histVars, snapVars, identityVars, retireVars>>

\* listUsers rejects, or resolves without Users (the spread then throws a
\* TypeError inside the try): the catch downgrades once, else rethrows.  A
\* rethrown error reaches main's catch directly: the outer frames returned the
\* recursive promise without awaiting it.
GetAllUsersError ==
  /\ pc = "getAllUsers"
  /\ \E err \in {AttributesError, OtherInvalidParameter, OtherError, SpreadError} :
       /\ IF IsDowngradable(includeCustomAttrs, err)
            THEN LET args == DowngradeArgs(accumedUsers, pageToken)
                 IN /\ accumedUsers' = args.accumedUsers
                    /\ includeCustomAttrs' = args.includeCustomAttrs
                    /\ pageToken' = args.pageToken
                    /\ downgradedFrom' = Append(downgradedFrom, GetAllUsersArgs(accumedUsers, includeCustomAttrs, pageToken))
                    /\ UNCHANGED <<pc, error>>
            ELSE /\ pc' = "catch"
                 /\ error' = err
                 /\ UNCHANGED <<accumedUsers, includeCustomAttrs, pageToken, downgradedFrom>>
  /\ UNCHANGED <<inventoryVars, scrubVars, entry, calls, poolIdx, poolUsers, usersServed, pagedVars, cacheVars,
                 histVars, snapVars, identityVars, retireVars>>

(***************************************************************************)
(* main: classification of the user pools                                  *)
(***************************************************************************)
\* IsAllUserForceChangePassword with some in place of every.
IsSomeUserForceChangePassword(users) == Len(users) > 0 /\ \E k \in DOMAIN users : users[k].UserStatus = "FORCE_CHANGE_PASSWORD"

\* poolUsers.length > 0 && poolUsers?.every(u => u?.UserStatus === 'FORCE_CHANGE_PASSWORD')
IsAllUserForceChangePassword(users) == Len(users) > 0 /\ \A k \in DOMAIN users : users[k].UserStatus = "FORCE_CHANGE_PASSWORD"

\* IsEmptyUsers off by one.
IsEmptyUsersOffByOne(users) == Len(users) = 1

\* poolUsers?.length === 0
IsEmptyUsers(users) == Len(users) = 0

\* The two ifs of the try block, in order.
ClassifiedPool(pool, users) ==
  LET afterEmpty == IF IsEmptyUsers(users)
                      THEN [pool EXCEPT !.isPrepareToDelete = TRUE, !.reasonDelete = ReasonEmptyUsers, !.poolUsers = <<users>>]
                      ELSE pool
  IN IF IsAllUserForceChangePassword(users)
       THEN [afterEmpty EXCEPT !.isPrepareToDelete = TRUE, !.poolUsers = <<users>>, !.reasonDelete = ReasonAllForceChange]
       ELSE afterEmpty

\* The getAllUsers call is over: its frame and the backend's memory of it go.
EnumReturned ==
  /\ accumedUsers' = <<>>
  /\ includeCustomAttrs' = TRUE
  /\ pageToken' = NoToken
  /\ usersServed' = <<>>
  /\ downgradedFrom' = <<>>

\* getAllUsers resolved: the rest of the try block.
ClassifyUserPool ==
  /\ pc = "classify"
  /\ cachedUserPoolIds' = [cachedUserPoolIds EXCEPT ![poolIdx] = ClassifiedPool(@, poolUsers)]
  /\ sawOtherStatus' = IF \E k \in DOMAIN poolUsers : poolUsers[k].UserStatus # "FORCE_CHANGE_PASSWORD"
                         THEN sawOtherStatus \cup {pools[poolIdx].Id}
                         ELSE sawOtherStatus
  /\ enumEmpty' = IF Len(poolUsers) = 0 THEN enumEmpty \cup {pools[poolIdx].Id} ELSE enumEmpty
  /\ poolUsers' = <<>>
  /\ EnumReturned
  /\ pc' = "userLoop"
  /\ UNCHANGED <<inventoryVars, scrubVars, entry, error, calls, poolIdx, cachedIdentityPoolIds, enumFailed,
                 multiProvider, pagedVars, snapVars, identityVars, retireVars>>

\* CatchEnumError rethrowing: the error rejects main.
CatchEnumErrorRethrow ==
  /\ pc = "catch"
  /\ enumFailed' = enumFailed \cup {pools[poolIdx].Id}
  /\ EnumReturned
  /\ pc' = "aborted"
  /\ UNCHANGED <<inventoryVars, scrubVars, entry, error, calls, poolIdx, poolUsers, sawOtherStatus, enumEmpty,
                 multiProvider, pagedVars, cacheVars, snapVars, identityVars, retireVars>>

\* CatchEnumError with the failed pool enumerated again.
CatchEnumErrorRetry ==
  /\ pc = "catch"
  /\ enumFailed' = enumFailed \cup {pools[poolIdx].Id}
  /\ error' = NoError
  /\ EnumReturned
  /\ poolIdx' = poolIdx - 1
  /\ pc' = "userLoop"
  /\ UNCHANGED <<inventoryVars, scrubVars, entry, calls, poolUsers, sawOtherStatus, enumEmpty,
                 multiProvider, pagedVars, cacheVars, snapVars, identityVars, retireVars>>

\* getAllUsers rejected: main's catch logs the error and the loop goes on.
CatchEnumError ==
  /\ pc = "catch"
  /\ enumFailed' = enumFailed \cup {pools[poolIdx].Id}
  /\ error' = NoError
  /\ EnumReturned
  /\ pc' = "userLoop"
  /\ UNCHANGED <<inventoryVars, scrubVars, entry, calls, poolIdx, poolUsers, sawOtherStatus, enumEmpty,
                 multiProvider, pagedVars, cacheVars, snapVars, identityVars, retireVars>>

(***************************************************************************)
(* main: the user-pool snapshots and listIdentityPools                     *)
(***************************************************************************)
FileNames == {"delete-pools.json", "keep-pools.json", "delete-identity-pools.json", "keep-identity-pools.json"}

IsTagged(pool) == pool.isPrepareToDelete

IsNotTagged(pool) == ~pool.isPrepareToDelete

\* FilterDelete without the filter.
FilterDeleteAll(ps) == ps

\* pools.filter(pool => pool?.isPrepareToDelete)
FilterDelete(ps) == SelectSeq(ps, IsTagged)

\* FilterKeep without the filter.
FilterKeepAll(ps) == ps

\* pools.filter(pool => !pool?.isPrepareToDelete)
FilterKeep(ps) == SelectSeq(ps, IsNotTagged)

\* jsonfile.writeFileSync(name, content)
WriteFile(fs, name, content) == [fs EXCEPT ![name] = <<content>>]

\* The loop is over: both user-pool snapshots are written, then main calls
\* listIdentityPools, which drains the backend when its cache is empty.
SnapshotUserPools ==
  /\ pc = "snapshotUserPools"
  /\ deletePools' = FilterDelete(pools)
  /\ realPools' = FilterKeep(pools)
  /\ files' = WriteFile(WriteFile(files, "delete-pools.json", FilterDelete(pools)),
                        "keep-pools.json", FilterKeep(pools))
  /\ listCalls' = Counted(listCalls, "listIdentityPools")
  /\ IF IsUnfetched(cachedIdentityPoolIds)
       THEN /\ pc' = "listIdentityPools"
            /\ fetches' = Counted(fetches, "listIdentityPools")
            /\ pagedPc' = "loop"
            /\ result' = <<>>
            /\ nextToken' = NoToken
            /\ served' = <<>>
       ELSE /\ pc' = "identityLoop"
            /\ UNCHANGED <<fetches, pagedVars>>
  /\ ipIdx' = 0
  /\ UNCHANGED <<scrubVars, entry, error, calls, poolIdx, poolUsers, response, deleteIdentityPools,
                 cacheVars, enumVars, histVars, retireVars>>

\* cachedIdentityPoolIds.push(...result); return cachedIdentityPoolIds
ListIdentityPoolsReturn ==
  /\ pc = "listIdentityPools"
  /\ pagedPc = "done"
  /\ cachedIdentityPoolIds' = cachedIdentityPoolIds \o result
  /\ pagedPc' = "idle"
  /\ result' = <<>>
  /\ served' = <<>>
  /\ pc' = "identityLoop"
  /\ UNCHANGED <<inventoryVars, scrubVars, entry, error, calls, poolIdx, poolUsers, nextToken, cachedUserPoolIds,
                 enumVars, histVars, snapVars, identityVars, retireVars>>

\* main's `identityPools` is the cached array itself.
identityPools == cachedIdentityPoolIds

(***************************************************************************)
(* main: classification of the identity pools                              *)
(***************************************************************************)
\* s.startsWith(prefix)
StartsWith(s, prefix) == Len(prefix) <= Len(s) /\ SubSeq(s, 1, Len(prefix)) = prefix

\* s.endsWith(suffix)
EndsWith(s, suffix) == Len(suffix) <= Len(s) /\ SubSeq(s, Len(s) - Len(suffix) + 1, Len(s)) = suffix

CognitoPrefix == <<"cognito-idp">>

\* The provider name of user pool id in a region: cognito-idp.<region>.amazonaws.com/<id>
CognitoProviderName(id) == <<"cognito-idp", ".eu-central-1.amazonaws.com", "/", id>>

\* A user pool id no listing returns.
UnlistedPoolId == UserPoolId(0)

\* The provider names the backend may hold: the Cognito name of an unlisted user
\* pool and of the first two listed ones, a foreign name ending in "/<pool id>",
\* a foreign name.
ProviderNames ==
  {CognitoProviderName(UnlistedPoolId), CognitoProviderName(UserPoolId(1)), CognitoProviderName(UserPoolId(2)),
   <<"accounts.example.com", "/", UserPoolId(1)>>, <<"graph.facebook.com">>}

\* The provider lists describeIdentityPool may resolve with: up to MaxProviders
\* providers, the first of any name.
ProviderLists ==
  {<<>>} \cup
  { [k \in 1..n |-> [ProviderName |-> IF k = 1 THEN name ELSE CognitoProviderName(UnlistedPoolId)]] :
      <<n, name>> \in (1..MaxProviders) \X ProviderNames }

\* `ProviderName ${providerName} not match any user pool`
ReasonNoMatch(providerName) == <<"ProviderName ">> \o providerName \o <<" not match any user pool">>

\* FindUserPoolByProviderName without the suffix match.
FindUserPoolByPrefix(real, providerName) == IF StartsWith(providerName, CognitoPrefix) /\ Len(real) > 0 THEN real ELSE <<>>

\* FindUserPoolByProviderName without the prefix test.
FindUserPoolBySuffix(real, providerName) ==
  LET Matches(pool) == EndsWith(providerName, <<"/">> \o <<pool.Id>>)
  IN SelectSeq(real, Matches)

\* findUserPoolByProviderName, over the realPools it closes on.
FindUserPoolByProviderName(real, providerName) ==
  LET Matches(pool) == EndsWith(providerName, <<"/">> \o <<pool.Id>>)
      userPoolMatchs == SelectSeq(real, Matches)
  IN IF StartsWith(providerName, CognitoPrefix) /\ Len(userPoolMatchs) > 0
       THEN userPoolMatchs
       ELSE <<>>

\* ClassifiedIdentityPool looking at the first provider of any non-empty list.
ClassifiedIdentityPoolFirst(identityPool, providers, real) ==
  IF Len(providers) = 0
    THEN [identityPool EXCEPT !.isPrepareToDelete = TRUE, !.reasonDelete = ReasonProvidersEmpty]
    ELSE IF Len(FindUserPoolByProviderName(real, providers[1].ProviderName)) = 0
      THEN [identityPool EXCEPT !.isPrepareToDelete = TRUE,
                                !.reasonDelete = ReasonNoMatch(providers[1].ProviderName)]
      ELSE identityPool

\* ClassifiedIdentityPool without the branch of the empty provider list.
ClassifiedIdentityPoolSole(identityPool, providers, real) ==
  IF Len(providers) = 1 /\ Len(FindUserPoolByProviderName(real, providers[1].ProviderName)) = 0
    THEN [identityPool EXCEPT !.isPrepareToDelete = TRUE,
                              !.reasonDelete = ReasonNoMatch(providers[1].ProviderName)]
    ELSE identityPool

\* The if / else if / else of the loop body, for a response that has providers.
ClassifiedIdentityPool(identityPool, providers, real) ==
  IF Len(providers) = 0
    THEN [identityPool EXCEPT !.isPrepareToDelete = TRUE, !.reasonDelete = ReasonProvidersEmpty]
    ELSE IF Len(providers) = 1
      THEN IF Len(FindUserPoolByProviderName(real, providers[1].ProviderName)) = 0
             THEN [identityPool EXCEPT !.isPrepareToDelete = TRUE,
                                       !.reasonDelete = ReasonNoMatch(providers[1].ProviderName)]
             ELSE identityPool
      ELSE identityPool

NoResponse == [hasProviders |-> FALSE, CognitoIdentityProviders |-> <<>>]

\* What describeIdentityPool may resolve with: a provider list, or a response
\* that carries no CognitoIdentityProviders.
DescribeResponses ==
  {NoResponse} \cup {[hasProviders |-> TRUE, CognitoIdentityProviders |-> ps] : ps \in ProviderLists}

\* One iteration of the identity-pool loop.  describeIdentityPool is awaited
\* outside any try: a rejection, or the TypeError of `.length` on an absent
\* provider list, rejects main.
DescribeIdentityPool ==
  /\ pc = "identityLoop"
  /\ ipIdx < Len(identityPools)
  /\ \E ok \in BOOLEAN :
       /\ IF ~ok
            THEN /\ pc' = "aborted"
                 /\ error' \in DescribeErrors
                 /\ UNCHANGED <<cachedIdentityPoolIds, identityVars, multiProvider>>
            ELSE \E resp \in DescribeResponses :
                   /\ response' = resp
                   /\ IF ~resp.hasProviders
                        THEN /\ pc' = "aborted"
                             /\ error' = ProvidersError
                             /\ UNCHANGED <<cachedIdentityPoolIds, ipIdx, multiProvider>>
                        ELSE /\ cachedIdentityPoolIds' =
                                  [cachedIdentityPoolIds EXCEPT ![ipIdx + 1] =
                                     ClassifiedIdentityPool(@, resp.CognitoIdentityProviders, realPools)]
                             /\ multiProvider' = IF Len(resp.CognitoIdentityProviders) >= 2
                                                   THEN multiProvider \cup {identityPools[ipIdx + 1].IdentityPoolId}
                                                   ELSE multiProvider
                             /\ ipIdx' = ipIdx + 1
                             /\ UNCHANGED <<pc, error>>
  /\ UNCHANGED <<inventoryVars, scrubVars, entry, calls, poolIdx, poolUsers, cachedUserPoolIds, sawOtherStatus,
                 enumFailed, enumEmpty, pagedVars, enumVars, snapVars, retireVars>>

\* SnapshotIdentityPools with the two writes left for after the retirement.
SnapshotIdentityPoolsUnwritten ==
  /\ pc = "identityLoop"
  /\ ipIdx = Len(identityPools)
  /\ deleteIdentityPools' = FilterDelete(identityPools)
  /\ pc' = "retire"
  /\ response' = NoResponse
  /\ UNCHANGED <<inventoryVars, scrubVars, entry, error, calls, poolIdx, poolUsers, files, deletePools, realPools, ipIdx,
                 pagedVars, cacheVars, enumVars, histVars, retireVars>>

\* The loop is over: both identity-pool snapshots are written and the
\* retirement loops begin.
SnapshotIdentityPools ==
  /\ pc = "identityLoop"
  /\ ipIdx = Len(identityPools)
  /\ deleteIdentityPools' = FilterDelete(identityPools)
  /\ files' = WriteFile(WriteFile(files, "delete-identity-pools.json", FilterDelete(identityPools)),
                        "keep-identity-pools.json", FilterKeep(identityPools))
  /\ pc' = "retire"
  /\ response' = NoResponse
  /\ UNCHANGED <<inventoryVars, scrubVars, entry, error, calls, poolIdx, poolUsers, deletePools, realPools, ipIdx,
                 pagedVars, cacheVars, enumVars, histVars, retireVars>>

(***************************************************************************)
(* main: the retirement loops                                              *)
(***************************************************************************)
\* A pool's Domain as describeUserPool reports it: "" is an absent or empty one
\* (the code tests its truthiness only).
Domains == {"", "auth.example.com"}

\* if (deleteUP?.UserPool?.Domain)
HasDomain(domain) == domain # ""

\* index.ts: describeUserPool for the next pool of deletePools.
DescribeUserPool ==
  /\ pc = "retire"
  /\ entry = "index"
  /\ delIdx < Len(deletePools)
  /\ \E ok \in BOOLEAN, domain \in Domains :
       /\ calls' = Append(calls, Call("describeUserPool", deletePools[delIdx + 1].Id, ok))
       /\ IF ok
            THEN /\ deleteUP' = domain
                 /\ retiringDomain' = domain
                 /\ pc' = IF HasDomain(domain) THEN "deleteUserPoolDomain" ELSE "deleteUserPool"
                 /\ UNCHANGED error
            ELSE /\ domain = ""
                 /\ pc' = "aborted"
                 /\ error' \in DescribeErrors
                 /\ UNCHANGED <<deleteUP, retiringDomain>>
  /\ UNCHANGED <<inventoryVars, scrubVars, entry, poolIdx, poolUsers, delIdx, idDelIdx, pagedVars, cacheVars,
                 enumVars, histVars, snapVars, identityVars>>

\* index.ts: deleteUserPoolDomain, awaited before the pool is deleted.
DeleteUserPoolDomain ==
  /\ pc = "deleteUserPoolDomain"
  /\ \E ok \in BOOLEAN :
       /\ calls' = Append(calls, Call("deleteUserPoolDomain", deletePools[delIdx + 1].Id, ok))
       /\ pc' = IF ok THEN "deleteUserPool" ELSE "aborted"
       /\ error' = IF ok THEN error ELSE OtherError
  /\ UNCHANGED <<inventoryVars, scrubVars, entry, poolIdx, poolUsers, pagedVars, cacheVars, enumVars, histVars,
                 snapVars, identityVars, retireVars>>

\* index.ts: deleteUserPool, after the describe and the domain deletion.
DeleteUserPool ==
  /\ pc = "deleteUserPool"
  /\ \E ok \in BOOLEAN :
       /\ calls' = Append(calls, Call("deleteUserPool", deletePools[delIdx + 1].Id, ok))
       /\ pc' = IF ok THEN "retire" ELSE "aborted"
       /\ error' = IF ok THEN error ELSE OtherError
       /\ delIdx' = IF ok THEN delIdx + 1 ELSE delIdx
  /\ UNCHANGED <<inventoryVars, scrubVars, entry, poolIdx, poolUsers, idDelIdx, deleteUP, retiringDomain, pagedVars,
                 cacheVars, enumVars, histVars, snapVars, identityVars>>

\* The other entry point: deleteUserPool is the whole loop body.  The backend
\* holds the pool's domain all the same.
DeleteUserPoolDirect ==
  /\ pc = "retire"
  /\ entry = "part_000"
  /\ delIdx < Len(deletePools)
  /\ \E ok \in BOOLEAN, domain \in Domains :
       /\ calls' = Append(calls, Call("deleteUserPool", deletePools[delIdx + 1].Id, ok))
       /\ retiringDomain' = domain
       /\ pc' = IF ok THEN "retire" ELSE "aborted"
       /\ error' = IF ok THEN error ELSE OtherError
       /\ delIdx' = IF ok THEN delIdx + 1 ELSE delIdx
  /\ UNCHANGED <<inventoryVars, scrubVars, entry, poolIdx, poolUsers, idDelIdx, deleteUP, pagedVars, cacheVars,
                 enumVars, histVars, snapVars, identityVars>>

\* deleteIdentityPool for the next pool of deleteIdentityPools.
DeleteIdentityPool ==
  /\ pc = "retire"
  /\ delIdx = Len(deletePools)
  /\ idDelIdx < Len(deleteIdentityPools)
  /\ \E ok \in BOOLEAN :
       /\ calls' = Append(calls, Call("deleteIdentityPool", deleteIdentityPools[idDelIdx + 1].IdentityPoolId, ok))
       /\ pc' = IF ok THEN "retire" ELSE "aborted"
       /\ error' = IF ok THEN error ELSE OtherError
       /\ idDelIdx' = IF ok THEN idDelIdx + 1 ELSE idDelIdx
  /\ UNCHANGED <<inventoryVars, scrubVars, entry, poolIdx, poolUsers, delIdx, deleteUP, retiringDomain, pagedVars,
                 cacheVars, enumVars, histVars, snapVars, identityVars>>

\* Both loops are over: main resolves.
MainDone ==
  /\ pc = "retire"
  /\ delIdx = Len(deletePools)
  /\ idDelIdx = Len(deleteIdentityPools)
  /\ pc' = "done"
  /\ UNCHANGED <<inventoryVars, scrubVars, entry, error, calls, poolIdx, poolUsers, pagedVars, cacheVars,
                 enumVars, histVars, snapVars, identityVars, retireVars>>

(***************************************************************************)
(* part_000: the anonymization transform                                   *)
(***************************************************************************)
\* An email, a generated name and a user name are strings, kept as sequences
\* of tokens; "" is <<>>.
\* s.indexOf(t): the 0-based position of the first t, -1 when there is none.
IndexOf(s, t) ==
  IF \E k \in DOMAIN s : s[k] = t
    THEN (CHOOSE k \in DOMAIN s : s[k] = t /\ \A j \in 1..(k - 1) : s[j] # t) - 1
    ELSE -1

\* s.substring(from): a negative start counts as 0.
Substring(s, from) == SubSeq(s, (IF from < 0 THEN 0 ELSE from) + 1, Len(s))

\* s.split(sep)
RECURSIVE Split(_, _)
Split(s, sep) ==
  IF IndexOf(s, sep) < 0
    THEN <<s>>
    ELSE <<SubSeq(s, 1, IndexOf(s, sep))>> \o Split(Substring(s, IndexOf(s, sep) + 1), sep)

\* s.replace(t, r) with a string pattern: the first occurrence only.
ReplaceFirst(s, t, r) ==
  IF IndexOf(s, t) < 0
    THEN s
    ELSE SubSeq(s, 1, IndexOf(s, t)) \o r \o Substring(s, IndexOf(s, t) + 1)

\* What names.choose() may return: adjective-noun.
Names == {<<"brave", "-", "lion">>, <<"calm", "-", "otter">>}

\* The function under memoize: domain, name, first, last, newEmail.
ScrubbedEmail(email, name) ==
  [first |-> Split(name, "-")[1],
   last  |-> Split(name, "-")[2],
   email |-> ReplaceFirst(name, "-", <<".">>) \o Substring(email, IndexOf(email, "@"))]

\* The cache of memoize before any call.
EmptyMemo == {}

\* scrubbedEmailMemo without the cache lookup: the function runs on every call.
ScrubbedEmailUnmemoized(cache, email, name) ==
  [value |-> ScrubbedEmail(email, name),
   cache |-> cache \cup {[key |-> email, value |-> ScrubbedEmail(email, name)]}]

\* scrubbedEmailMemo(email): memoize keeps one value for each first argument
\* and runs the function only for an argument it has no value for.  name is
\* what names.choose() returns if it is asked.
ScrubbedEmailMemo(cache, email, name) ==
  IF \E m \in cache : m.key = email
    THEN [value |-> (CHOOSE m \in cache : m.key = email).value, cache |-> cache]
    ELSE [value |-> ScrubbedEmail(email, name),
          cache |-> cache \cup {[key |-> email, value |-> ScrubbedEmail(email, name)]}]

\* oldEmail.endsWith('cleo.com') || oldEmail.endsWith('mailosaur.io')
AllowListed(s) == EndsWith(s, <<"cleo.com">>) \/ EndsWith(s, <<"mailosaur.io">>)

Attribute(n, v) == [Name |-> n, Value |-> v]

\* ['given_name', 'family_name', 'preferred_name', 'email']
ScrubbedAttributeNames == {"given_name", "family_name", "preferred_name", "email"}

\* The filter of scrubPoolUser.
IsPassedThrough(attr) == attr.Name \notin ScrubbedAttributeNames

\* The Value of the first 'email' attribute, '' when there is none.
OldEmail(user) ==
  IF \E k \in DOMAIN user.Attributes : user.Attributes[k].Name = "email"
    THEN user.Attributes[CHOOSE k \in DOMAIN user.Attributes :
                           /\ user.Attributes[k].Name = "email"
                           /\ \A j \in 1..(k - 1) : user.Attributes[j].Name # "email"].Value
    ELSE <<>>

\* The three new attributes of a scrubbed user.
NewAttributes(identity) ==
  <<Attribute("email", identity.email), Attribute("given_name", identity.first),
    Attribute("family_name", identity.last)>>

\* ScrubPoolUser with the attribute list replaced by the three new attributes.
ScrubPoolUserReplaced(user, identity) ==
  [user EXCEPT !.Username = IF IndexOf(@, "@") >= 0 THEN identity.email ELSE @,
               !.Attributes = NewAttributes(identity)]

\* The record scrubPoolUser returns for a user whose email is not allow-listed.
ScrubPoolUser(user, identity) ==
  [user EXCEPT !.Username = IF IndexOf(@, "@") >= 0 THEN identity.email ELSE @,
               !.Attributes = SelectSeq(@, IsPassedThrough) \o NewAttributes(identity)]

\* The record scrubMember returns for a member whose email is not allow-listed.
ScrubMember(member, identity) == [member EXCEPT !.email = [S |-> identity.email]]

\* The emails of the records to scrub.
Emails ==
  {<<"alice", "@", "example.com">>, <<"bob", "@", "cleo.com">>, <<"eve", "@", "mailosaur.io">>}

\* The attributes a user may carry, in the order the backend lists them.
AttributesOf(email) ==
  <<Attribute("given_name", <<"Al">>), Attribute("email", email),
    Attribute("preferred_name", <<"Ally">>), Attribute("custom:tenant", <<"t1">>)>>

\* The attributes of list whose position is in keep.
RECURSIVE Restrict(_, _)
Restrict(list, keep) ==
  IF list = <<>>
    THEN <<>>
    ELSE Restrict(SubSeq(list, 1, Len(list) - 1), keep) \o
           (IF Len(list) \in keep THEN <<list[Len(list)]>> ELSE <<>>)

\* The user records handed to scrubPoolUser: the Username is an email or not,
\* and any of the attributes may be missing.
PoolUsers ==
  { [Username |-> u, UserStatus |-> "CONFIRMED", Attributes |-> Restrict(AttributesOf(e), keep)] :
      <<u, e, keep>> \in {<<"alice", "@", "example.com">>, <<"user1">>} \X Emails \X SUBSET (1..4) }

\* The member items handed to scrubMember.
Members == {[id |-> <<"m1">>, email |-> [S |-> e]] : e \in Emails}

\* No scrubPoolUser / scrubMember call was made yet.
NoScrub == [fn |-> "none", input |-> <<>>, output |-> <<>>]

(***************************************************************************)
(* The run                                                                 *)
(***************************************************************************)
\* The module just loaded: both caches and the memoize cache are empty and no
\* function has run.
InitState ==
  /\ entry \in EntryPoints
  /\ error = NoError
  /\ calls = <<>>
  /\ pagedPc = "idle"
  /\ result = <<>>
  /\ nextToken = NoToken
  /\ served = <<>>
  /\ cachedUserPoolIds = <<>>
  /\ cachedIdentityPoolIds = <<>>
  /\ poolIdx = 0
  /\ accumedUsers = <<>>
  /\ includeCustomAttrs = TRUE
  /\ pageToken = NoToken
  /\ usersServed = <<>>
  /\ downgradedFrom = <<>>
  /\ poolUsers = <<>>
  /\ sawOtherStatus = {}
  /\ enumFailed = {}
  /\ enumEmpty = {}
  /\ multiProvider = {}
  /\ files = [name \in FileNames |-> <<>>]
  /\ deletePools = <<>>
  /\ realPools = <<>>
  /\ deleteIdentityPools = <<>>
  /\ ipIdx = 0
  /\ response = NoResponse
  /\ delIdx = 0
  /\ idDelIdx = 0
  /\ deleteUP = ""
  /\ retiringDomain = ""
  /\ listCalls = [op \in ListOps |-> 0]
  /\ fetches = [op \in ListOps |-> 0]
  /\ memo = EmptyMemo
  /\ identities = {}
  /\ scrubbed = NoScrub

\* The IIFE calls main.
Init == pc = "start" /\ InitState

Next ==
  \/ MainStart
  \/ PagedAWSCallPage
  \/ PagedAWSCallReject
  \/ ListUserPoolsReturn
  \/ UserLoopNext
  \/ GetAllUsersPage
  \/ GetAllUsersError
  \/ ClassifyUserPool
  \/ CatchEnumError
  \/ SnapshotUserPools
  \/ ListIdentityPoolsReturn
  \/ DescribeIdentityPool
  \/ SnapshotIdentityPools
  \/ DescribeUserPool
  \/ DeleteUserPoolDomain
  \/ DeleteUserPool
  \/ DeleteUserPoolDirect
  \/ DeleteIdentityPool
  \/ MainDone

Spec == Init /\ [][Next]_vars

\* The run under a backend that settles every call: main is never left waiting
\* while it has a step to take.  Every listing of the backend ends within
\* MaxPages pages, every user listing within MaxUserPages.
SpecFair == Spec /\ WF_vars(Next)

(***************************************************************************)
(* The inventory cache under a caller that lists more than once            *)
(***************************************************************************)
\* The array a listing function stores its result in.
CacheOf(op) == IF op = "listUserPools" THEN cachedUserPoolIds ELSE cachedIdentityPoolIds

\* A call of listUserPools or listIdentityPools: the backend is drained when
\* the stored array is empty, else the stored array is returned as it is.
ListPoolsCall ==
  /\ pc = "caller"
  /\ \E op \in ListOps :
       /\ listCalls[op] < MaxListCalls
       /\ listCalls' = Counted(listCalls, op)
       /\ IF IsUnfetched(CacheOf(op))
            THEN /\ pc' = op
                 /\ fetches' = Counted(fetches, op)
                 /\ pagedPc' = "loop"
                 /\ result' = <<>>
                 /\ nextToken' = NoToken
                 /\ served' = <<>>
            ELSE UNCHANGED <<pc, fetches, pagedVars>>
  /\ UNCHANGED <<scrubVars, entry, error, calls, poolIdx, poolUsers, cacheVars, enumVars,
                 histVars, snapVars, identityVars, retireVars>>

\* cached.push(...result); return cached: back in the caller.
ListPoolsReturn ==
  /\ pc \in ListOps
  /\ pagedPc = "done"
  /\ IF pc = "listUserPools"
       THEN /\ cachedUserPoolIds' = cachedUserPoolIds \o result
            /\ UNCHANGED cachedIdentityPoolIds
       ELSE /\ cachedIdentityPoolIds' = cachedIdentityPoolIds \o result
            /\ UNCHANGED cachedUserPoolIds
  /\ pagedPc' = "idle"
  /\ result' = <<>>
  /\ served' = <<>>
  /\ pc' = "caller"
  /\ UNCHANGED <<inventoryVars, scrubVars, entry, error, calls, poolIdx, poolUsers, nextToken,
                 enumVars, histVars, snapVars, identityVars, retireVars>>

InitCache == pc = "caller" /\ InitState

NextCache ==
  \/ ListPoolsCall
  \/ PagedAWSCallPage
  \/ PagedAWSCallReject
  \/ ListPoolsReturn

SpecCache == InitCache /\ [][NextCache]_vars

(***************************************************************************)
(* The anonymization transform over the records of an export               *)
(***************************************************************************)
\* scrubPoolUser(user)
ScrubPoolUserCall ==
  /\ pc = "scrub"
  /\ \E user \in PoolUsers, name \in Names :
       LET memoized == ScrubbedEmailMemo(memo, OldEmail(user), name)
       IN  IF AllowListed(OldEmail(user))
             THEN /\ scrubbed' = [fn |-> "scrubPoolUser", input |-> user, output |-> user]
                  /\ UNCHANGED <<memo, identities>>
             ELSE /\ memo' = memoized.cache
                  /\ identities' = identities \cup {[fn |-> "scrubPoolUser", email |-> OldEmail(user),
                                                     identity |-> memoized.value]}
                  /\ scrubbed' = [fn |-> "scrubPoolUser", input |-> user,
                                  output |-> ScrubPoolUser(user, memoized.value)]
  /\ UNCHANGED <<inventoryVars, entry, pc, error, calls, poolIdx, poolUsers, pagedVars, cacheVars,
                 enumVars, histVars, snapVars, identityVars, retireVars>>

\* scrubMember(member)
ScrubMemberCall ==
  /\ pc = "scrub"
  /\ \E member \in Members, name \in Names :
       LET memoized == ScrubbedEmailMemo(memo, member.email.S, name)
       IN  IF AllowListed(Substring(member.email.S, IndexOf(member.email.S, "@")))
             THEN /\ scrubbed' = [fn |-> "scrubMember", input |-> member, output |-> member]
                  /\ UNCHANGED <<memo, identities>>
             ELSE /\ memo' = memoized.cache
                  /\ identities' = identities \cup {[fn |-> "scrubMember", email |-> member.email.S,
                                                     identity |-> memoized.value]}
                  /\ scrubbed' = [fn |-> "scrubMember", input |-> member,
                                  output |-> ScrubMember(member, memoized.value)]
  /\ UNCHANGED <<inventoryVars, entry, pc, error, calls, poolIdx, poolUsers, pagedVars, cacheVars,
                 enumVars, histVars, snapVars, identityVars, retireVars>>

\* The transform is defined in part_000 only.
InitScrub == pc = "scrub" /\ entry = "part_000" /\ InitState

NextScrub ==
  \/ ScrubPoolUserCall
  \/ ScrubMemberCall

SpecScrub == InitScrub /\ [][NextScrub]_vars

(***************************************************************************)
(* Properties                                                              *)
(***************************************************************************)
Range(s) == {s[k] : k \in DOMAIN s}

Written(name) == files[name] # <<>>

\* The user pools the loop is done with.
Processed(i) == i < poolIdx \/ (i = poolIdx /\ pc \notin {"getAllUsers", "classify", "catch"})

PoolIds(ps) == {ps[k].Id : k \in DOMAIN ps}

IdentityPoolIds(ps) == {ps[k].IdentityPoolId : k \in DOMAIN ps}

\* The items of the pages k..Len(served) the backend handed out, in order.
ItemsFrom(k) == Flatten([j \in 1..(Len(served) - k + 1) |-> served[j + k - 1].resp.items])

IsSuffix(suffix, s) == Len(suffix) <= Len(s) /\ SubSeq(s, Len(s) - Len(suffix) + 1, Len(s)) = suffix

Contains(s, part) == \E a \in 1..(Len(s) - Len(part) + 1) : SubSeq(s, a, a + Len(part) - 1) = part

\* C1: pagedAWSCall completeness.  The action is called first without cursor and
\* then with the cursor of the page before, only after a page that yields a
\* cursor; when the call returns, the last page is the only cursor-less one and
\* the result is the concatenation of the items of every page, in page order.
C1_PagedComplete ==
  /\ \A k \in DOMAIN served :
       /\ served[k].req = (IF k = 1 THEN NoToken ELSE served[k - 1].resp.NextToken)
       /\ (k < Len(served) => served[k].resp.NextToken # NoToken)
  /\ pagedPc = "done" =>
       /\ Len(served) >= 1
       /\ Last(served).resp.NextToken = NoToken
       /\ result = ItemsFrom(1)

\* C1 witness: a fetch of three pages, the first two with items, has returned.
C1_Witness ==
  /\ pagedPc = "done"
  /\ Len(served) = 3
  /\ Len(served[1].resp.items) >= 1
  /\ Len(served[2].resp.items) >= 1

\* C2: zero-item page tolerance.  After a page without items (empty or absent
\* collection) that yields a cursor the call has not returned: the action is
\* called again with that cursor, and the result of the call ends with the items
\* of the later pages.
C2_ZeroItemPage ==
  \A k \in DOMAIN served :
    (Len(served[k].resp.items) = 0 /\ served[k].resp.NextToken # NoToken) =>
      /\ IF k = Len(served)
           THEN pagedPc \in {"loop", "rejected"} /\ nextToken = served[k].resp.NextToken
           ELSE served[k + 1].req = served[k].resp.NextToken
      /\ pagedPc = "done" => IsSuffix(ItemsFrom(k + 1), result)

\* C2 witness: a fetch has returned whose first page had no item collection,
\* whose second was empty and whose third brought items.
C2_Witness ==
  /\ pagedPc = "done"
  /\ Len(served) = 3
  /\ ~served[1].resp.hasItems /\ served[1].resp.NextToken # NoToken
  /\ served[2].resp.hasItems /\ Len(served[2].resp.items) = 0
  /\ Len(served[3].resp.items) >= 1
  /\ Len(result) >= 1

\* The step in which getAllUsers downgrades.
Downgrade == pc = "getAllUsers" /\ includeCustomAttrs /\ ~includeCustomAttrs'

\* C3 as stated: the downgrade restarts the enumeration from the first page and
\* carries no user of the failed attempt.
C3_RestartFromFirstPage == [][Downgrade => (pageToken' = NoToken /\ accumedUsers' = <<>>)]_vars

\* C3 amended: the downgrade repeats the failed call only: same page token, the
\* users accumulated so far kept, extended attributes disabled; and the users
\* getAllUsers resolves with are those of every page handed out, before and
\* after the downgrade, in order.
C3_ResumeFromFailedPage ==
  /\ [][Downgrade => (pageToken' = pageToken /\ accumedUsers' = accumedUsers /\ pc' = "getAllUsers")]_vars
  /\ [](pc = "classify" => poolUsers = UsersOf(usersServed))
  /\ [](pc = "getAllUsers" => accumedUsers = UsersOf(usersServed))

\* C3 witness: an enumeration that downgraded with users already accumulated
\* has resolved, with more users than it had at the downgrade.
C3_Witness ==
  /\ pc = "classify"
  /\ Len(downgradedFrom) = 1
  /\ Len(downgradedFrom[1].accumedUsers) >= 1
  /\ downgradedFrom[1].pageToken # NoToken
  /\ Len(poolUsers) > Len(downgradedFrom[1].accumedUsers)

\* C4: enumeration failure isolation.  A failed enumeration never rejects main
\* (main rejects before the snapshots only before the loop), the failed pool has no verdict,
\* and every other pool the loop is done with has the verdict of its own users:
\* tagged unless one of them has another status.
C4_FailureIsolation ==
  /\ (pc = "aborted" /\ ~Written("keep-pools.json")) => (poolIdx = 0 /\ enumFailed = {})
  /\ \A i \in DOMAIN pools :
       /\ pools[i].Id \in enumFailed =>
            (~pools[i].isPrepareToDelete /\ pools[i].reasonDelete = <<>> /\ pools[i].poolUsers = <<>>)
       /\ (Processed(i) /\ pools[i].Id \notin enumFailed) =>
            (pools[i].isPrepareToDelete <=> pools[i].Id \notin sawOtherStatus)

\* C4 witness: the first pool's enumeration threw, the second pool was tagged
\* after it and the run went on to the retirement loops.
C4_Witness ==
  /\ pc = "retire"
  /\ Len(pools) = 2
  /\ pools[1].Id \in enumFailed
  /\ pools[2].isPrepareToDelete

\* C5: a user pool whose enumeration returned no user is tagged, with the reason
\* of the empty pool (the string 'Is empty users').
C5_EmptyPoolTagged ==
  \A i \in DOMAIN pools :
    (Processed(i) /\ pools[i].Id \in enumEmpty) =>
      (pools[i].isPrepareToDelete /\ pools[i].reasonDelete = <<"Is empty users">>)

\* C5 witness: a pool enumerated without error and without users, classified.
C5_Witness == \E i \in DOMAIN pools : Processed(i) /\ pools[i].Id \in enumEmpty /\ pools[i].Id \notin enumFailed

\* C6: a pool enumerated with at least one user is tagged iff none of its users
\* has a status other than FORCE_CHANGE_PASSWORD, and no delete call ever names a
\* pool one of whose users has another status.
C6_ForceChange ==
  /\ \A i \in DOMAIN pools :
       (Processed(i) /\ pools[i].Id \notin enumFailed /\ pools[i].Id \notin enumEmpty) =>
         (pools[i].isPrepareToDelete <=> pools[i].Id \notin sawOtherStatus)
  /\ \A k \in DOMAIN calls :
       calls[k].op \in {"describeUserPool", "deleteUserPoolDomain", "deleteUserPool"} => calls[k].id \notin sawOtherStatus

\* C6 witness: the run is over, one pool had a user of another status and was
\* not deleted, another had two users, all FORCE_CHANGE_PASSWORD, and was deleted.
C6_Witness ==
  /\ pc = "done"
  /\ \E i, j \in DOMAIN pools :
       /\ pools[i].Id \in sawOtherStatus
       /\ pools[j].reasonDelete = <<"Is all users force change password">>
       /\ Len(pools[j].poolUsers[1]) = 2
       /\ \E k \in DOMAIN calls : calls[k] = Call("deleteUserPool", pools[j].Id, TRUE)

\* The two snapshots split the inventory: each record in exactly one of them.
Partition(deleted, kept, all) ==
  /\ Range(deleted) \cap Range(kept) = {}
  /\ Range(deleted) \cup Range(kept) = Range(all)
  /\ Len(deleted) + Len(kept) = Len(all)

\* C7: once written, the delete and keep snapshots of the user pools split the
\* listed user pools, and those of the identity pools the listed identity pools.
C7_Partition ==
  /\ (Written("delete-pools.json") \/ Written("keep-pools.json")) =>
       /\ Written("delete-pools.json") /\ Written("keep-pools.json")
       /\ Partition(files["delete-pools.json"][1], files["keep-pools.json"][1], pools)
       /\ PoolIds(files["delete-pools.json"][1]) \cap PoolIds(files["keep-pools.json"][1]) = {}
  /\ (Written("delete-identity-pools.json") \/ Written("keep-identity-pools.json")) =>
       /\ Written("delete-identity-pools.json") /\ Written("keep-identity-pools.json")
       /\ Partition(files["delete-identity-pools.json"][1], files["keep-identity-pools.json"][1], identityPools)

\* C7 witness: all four snapshots are written, a pool whose enumeration failed
\* is in the keep snapshot, another pool in the delete snapshot, and the identity
\* pool in one of its two.
C7_Witness ==
  /\ Written("keep-identity-pools.json")
  /\ Len(identityPools) = 1
  /\ Len(files["delete-pools.json"][1]) = 1
  /\ \E k \in DOMAIN files["keep-pools.json"][1] : files["keep-pools.json"][1][k].Id \in enumFailed

\* The identity pool the loop classified last, with the response it was classified on.
LastClassified == pc = "identityLoop" /\ ipIdx >= 1 /\ response.hasProviders

SoleProviderName == response.CognitoIdentityProviders[1].ProviderName

\* providerName ends with "/<id>"
NamesPool(providerName, id) == Len(providerName) >= 2 /\ providerName[Len(providerName) - 1] = "/" /\ providerName[Len(providerName)] = id

\* C8 as stated: a sole provider naming a retained pool keeps the identity pool,
\* one naming a tagged pool tags it with a reason that names the provider.
C8_CrossReference ==
  (LastClassified /\ Len(response.CognitoIdentityProviders) = 1) =>
    \A i \in DOMAIN pools :
      NamesPool(SoleProviderName, pools[i].Id) =>
        IF pools[i].Id \in PoolIds(realPools)
          THEN ~identityPools[ipIdx].isPrepareToDelete
          ELSE /\ identityPools[ipIdx].isPrepareToDelete
               /\ Contains(identityPools[ipIdx].reasonDelete, SoleProviderName)

\* C8 amended: the identity pool is kept when the sole provider name starts with
\* "cognito-idp" and names a retained pool; it is tagged, with a reason that
\* names the provider, when the name names a pool tagged in the same run.
C8_CrossReferenceCognito ==
  (LastClassified /\ Len(response.CognitoIdentityProviders) = 1) =>
    \A i \in DOMAIN pools :
      NamesPool(SoleProviderName, pools[i].Id) =>
        /\ (pools[i].Id \in PoolIds(realPools) /\ SoleProviderName[1] = "cognito-idp") =>
             ~identityPools[ipIdx].isPrepareToDelete
        /\ pools[i].Id \in PoolIds(deletePools) =>
             /\ identityPools[ipIdx].isPrepareToDelete
             /\ Contains(identityPools[ipIdx].reasonDelete, SoleProviderName)

\* C8 witness: two user pools, the first tagged and the second retained, and an
\* identity pool kept on the Cognito name of the second.
C8_Witness ==
  /\ LastClassified
  /\ PoolIds(deletePools) = {UserPoolId(1)}
  /\ PoolIds(realPools) = {UserPoolId(2)}
  /\ response.CognitoIdentityProviders = <<[ProviderName |-> CognitoProviderName(UserPoolId(2))]>>
  /\ ~identityPools[ipIdx].isPrepareToDelete

\* C9: an identity pool described with two or more providers is never tagged
\* and never named by a deleteIdentityPool call.
C9_MultiProvider ==
  /\ \A j \in DOMAIN identityPools :
       identityPools[j].IdentityPoolId \in multiProvider =>
         (~identityPools[j].isPrepareToDelete /\ identityPools[j].reasonDelete = <<>>)
  /\ \A k \in DOMAIN calls : calls[k].op = "deleteIdentityPool" => calls[k].id \notin multiProvider
  /\ Written("delete-identity-pools.json") =>
       IdentityPoolIds(files["delete-identity-pools.json"][1]) \cap multiProvider = {}

\* C9 witness: the run is over with an identity pool of two providers, the first
\* naming no retained user pool.
C9_Witness ==
  /\ pc = "done"
  /\ multiProvider # {}
  /\ PoolIds(realPools) = {}

\* C10: a deleteUserPool call for a pool that had a domain when its retirement
\* began comes after a resolved deleteUserPoolDomain call for the same pool.
C10_DomainBeforePool ==
  (calls # <<>> /\ Last(calls).op = "deleteUserPool" /\ retiringDomain # "") =>
    \E j \in 1..(Len(calls) - 1) : calls[j] = Call("deleteUserPoolDomain", Last(calls).id, TRUE)

\* The resources a remote call of the retirement loops failed on.
FailedIds == {calls[k].id : k \in {j \in DOMAIN calls : ~calls[j].ok}}

\* A delete call was issued for the resource.
DeleteIssued(op, id) == \E k \in DOMAIN calls : calls[k].op = op /\ calls[k].id = id

\* C11: once the run is over, a failed describe, domain-delete or pool-delete
\* call for one tagged resource has not kept the retirement loops from issuing
\* the delete call of every other tagged user pool and identity pool.
C11_DeletionFailureIsolation ==
  (pc \in {"done", "aborted"} /\ FailedIds # {}) =>
    /\ \A i \in DOMAIN deletePools :
         deletePools[i].Id \notin FailedIds => DeleteIssued("deleteUserPool", deletePools[i].Id)
    /\ \A j \in DOMAIN deleteIdentityPools :
         deleteIdentityPools[j].IdentityPoolId \notin FailedIds =>
           DeleteIssued("deleteIdentityPool", deleteIdentityPools[j].IdentityPoolId)

\* The operations that retire a resource.
DeleteOps == {"deleteUserPoolDomain", "deleteUserPool", "deleteIdentityPool"}

\* C12: when the first deleteUserPoolDomain, deleteUserPool or deleteIdentityPool
\* call is issued, both loops have classified every pool and the four snapshot
\* files hold the final partition of the user pools and of the identity pools.
C12_SnapshotBeforeRetirement ==
  (\E k \in DOMAIN calls : calls[k].op \in DeleteOps) =>
    /\ \A name \in FileNames : Written(name)
    /\ poolIdx = Len(pools) /\ \A i \in 1..Len(pools) : Processed(i)
    /\ ipIdx = Len(identityPools)
    /\ files["delete-pools.json"] = <<FilterDelete(pools)>>
    /\ files["keep-pools.json"] = <<FilterKeep(pools)>>
    /\ files["delete-identity-pools.json"] = <<FilterDelete(identityPools)>>
    /\ files["keep-identity-pools.json"] = <<FilterKeep(identityPools)>>

\* The first delete call has just been issued, with tagged pools of both kinds.
C12_Witness ==
  /\ Len(calls) >= 1
  /\ Last(calls).op \in DeleteOps
  /\ \A k \in 1..(Len(calls) - 1) : calls[k].op \notin DeleteOps
  /\ Len(deletePools) >= 1
  /\ Len(deleteIdentityPools) >= 1
  /\ Len(realPools) >= 1

\* C13: over any sequence of calls of listUserPools and of listIdentityPools,
\* each of the two drains the backend at most once, whatever the inventory.
C13_FetchOnce == \A op \in ListOps : fetches[op] <= 1

\* The last call scrubbed a user, or a member, whose email is not allow-listed.
ScrubbedUser == scrubbed.fn = "scrubPoolUser" /\ ~AllowListed(OldEmail(scrubbed.input))

ScrubbedMember == scrubbed.fn = "scrubMember" /\ ~AllowListed(scrubbed.input.email.S)

\* The value of the named attribute in the list: its last occurrence.
ValueOf(attrs, n) == attrs[CHOOSE k \in DOMAIN attrs : attrs[k].Name = n /\ \A j \in (k + 1)..Len(attrs) : attrs[j].Name # n].Value

\* C14: whatever the name generator returns, all calls of the memoized transform
\* with the same email return the same {first, last, email}, which is what
\* scrubPoolUser and scrubMember put in their output; a user or a member whose
\* email is on an allow-listed domain is returned unchanged.
C14_Determinism ==
  /\ \A p, q \in identities : p.email = q.email => p.identity = q.identity
  /\ ScrubbedUser =>
       \E p \in identities :
         /\ p.email = OldEmail(scrubbed.input)
         /\ ValueOf(scrubbed.output.Attributes, "email") = p.identity.email
         /\ ValueOf(scrubbed.output.Attributes, "given_name") = p.identity.first
         /\ ValueOf(scrubbed.output.Attributes, "family_name") = p.identity.last
  /\ ScrubbedMember =>
       \E p \in identities :
         p.email = scrubbed.input.email.S /\ scrubbed.output.email.S = p.identity.email
  /\ (scrubbed.fn = "scrubPoolUser" /\ AllowListed(OldEmail(scrubbed.input))) =>
       scrubbed.output = scrubbed.input
  /\ (scrubbed.fn = "scrubMember" /\ AllowListed(scrubbed.input.email.S)) =>
       scrubbed.output = scrubbed.input

\* The same email went through scrubPoolUser and through scrubMember, another
\* email got another name, and the last call returned an allow-listed user as
\* it was.
C14_Witness ==
  /\ \E p, q \in identities : p.email = q.email /\ p.fn # q.fn
  /\ \E p, q \in identities : p.identity.first # q.identity.first
  /\ scrubbed.fn = "scrubPoolUser"
  /\ AllowListed(OldEmail(scrubbed.input))
  /\ Len(scrubbed.input.Attributes) >= 2

\* What the user of the last call carried over: each attribute named outside
\* changed is in the output with its value, each output attribute named outside
\* changed comes from the input, UserStatus is as it was, and so is a Username
\* that holds no '@'.
FramePreserved(changed) ==
  /\ \A k \in DOMAIN scrubbed.input.Attributes :
       scrubbed.input.Attributes[k].Name \notin changed =>
         \E j \in DOMAIN scrubbed.output.Attributes :
           scrubbed.output.Attributes[j] = scrubbed.input.Attributes[k]
  /\ \A j \in DOMAIN scrubbed.output.Attributes :
       scrubbed.output.Attributes[j].Name \notin changed =>
         \E k \in DOMAIN scrubbed.input.Attributes :
           scrubbed.input.Attributes[k] = scrubbed.output.Attributes[j]
  /\ scrubbed.output.UserStatus = scrubbed.input.UserStatus
  /\ IndexOf(scrubbed.input.Username, "@") < 0 => scrubbed.output.Username = scrubbed.input.Username

\* C15 as stated: scrubPoolUser on a user whose email is not allow-listed
\* changes the given_name, family_name and email attributes only.
C15_Frame == ScrubbedUser => FramePreserved({"given_name", "family_name", "email"})

\* C15: scrubPoolUser on a user whose email is not allow-listed sets email,
\* given_name and family_name once each, removes preferred_name, and carries
\* over every other attribute and field.
C15_FrameButPreferredName ==
  ScrubbedUser =>
    /\ FramePreserved(ScrubbedAttributeNames)
    /\ \A j \in DOMAIN scrubbed.output.Attributes : scrubbed.output.Attributes[j].Name # "preferred_name"
    /\ \A n \in {"email", "given_name", "family_name"} :
         Cardinality({j \in DOMAIN scrubbed.output.Attributes : scrubbed.output.Attributes[j].Name = n}) = 1

\* The user of the last call had a preferred_name and a custom attribute, and a
\* Username that is no email.
C15_Witness ==
  /\ ScrubbedUser
  /\ \E k \in DOMAIN scrubbed.input.Attributes : scrubbed.input.Attributes[k].Name = "preferred_name"
  /\ \E k \in DOMAIN scrubbed.input.Attributes : scrubbed.input.Attributes[k].Name = "custom:tenant"
  /\ IndexOf(scrubbed.input.Username, "@") < 0

\* The last identity pool was described with one provider, whose name does not
\* start with "cognito-idp".
SoleForeignProvider ==
  /\ LastClassified
  /\ Len(response.CognitoIdentityProviders) = 1
  /\ ~StartsWith(SoleProviderName, CognitoPrefix)

\* The provider names that do not start with "cognito-idp".
ForeignNames == {name \in ProviderNames : ~StartsWith(name, CognitoPrefix)}

\* C16 as stated: an identity pool whose sole provider is not a Cognito one is
\* kept: not tagged, without reason, and not in the delete snapshot.
C16_SilentKeep ==
  /\ SoleForeignProvider =>
       (~identityPools[ipIdx].isPrepareToDelete /\ identityPools[ipIdx].reasonDelete = <<>>)
  /\ Written("delete-identity-pools.json") =>
       \A j \in DOMAIN identityPools :
         (\E name \in ForeignNames : Contains(identityPools[j].reasonDelete, name)) =>
           identityPools[j].IdentityPoolId \notin IdentityPoolIds(deleteIdentityPools)

\* C16: an identity pool whose sole provider is not a Cognito one is tagged,
\* whatever the retained user pools, with the reason that the provider matches
\* no user pool, and it is in the delete snapshot.
C16_ForeignSoleProviderTagged ==
  /\ SoleForeignProvider =>
       /\ identityPools[ipIdx].isPrepareToDelete
       /\ identityPools[ipIdx].reasonDelete = ReasonNoMatch(SoleProviderName)
  /\ Written("delete-identity-pools.json") =>
       \A j \in DOMAIN identityPools :
         (\E name \in ForeignNames : identityPools[j].reasonDelete = ReasonNoMatch(name)) =>
           identityPools[j].IdentityPoolId \in IdentityPoolIds(files["delete-identity-pools.json"][1])

\* C16 witness: the sole provider is a foreign name ending in the id of a
\* retained user pool.
C16_Witness ==
  /\ SoleForeignProvider
  /\ \E i \in DOMAIN realPools : NamesPool(SoleProviderName, realPools[i].Id)

\* C17: an identity pool described with an empty provider list is tagged, with
\* the reason that its providers are empty, whatever the retained user pools.
C17_ZeroProviders ==
  (LastClassified /\ Len(response.CognitoIdentityProviders) = 0) =>
    /\ identityPools[ipIdx].isPrepareToDelete
    /\ identityPools[ipIdx].reasonDelete = ReasonProvidersEmpty

\* C17 witness: an empty provider list while a user pool is retained.
C17_Witness ==
  /\ LastClassified
  /\ Len(response.CognitoIdentityProviders) = 0
  /\ Len(realPools) >= 1
  /\ identityPools[ipIdx].isPrepareToDelete

\* C18: a describeIdentityPool or describeUserPool call that rejects with
\* resource-not-found does not end the run: the loop goes on to the next pool.
C18_DescribeNotFoundContinues == ~(pc = "aborted" /\ error = NotFoundError)

\* The action of a listing rejected.
ListingRejected == error # NoError /\ (pc \in ListOps \/ pagedPc = "rejected")

\* C19: when the action rejects on some page, the paged fetch rejects with that
\* error and so does main, the action is not called again, and the items of the
\* pages before are returned to nobody: the listing's cache stays empty.
C19_PagedErrorPolicy ==
  /\ [](ListingRejected =>
          /\ pagedPc = "rejected"
          /\ pc = "aborted"
          /\ error = OtherError
          /\ IF Written("keep-pools.json")
               THEN cachedIdentityPoolIds = <<>>
               ELSE cachedUserPoolIds = <<>>)
  /\ [][pagedPc = "rejected" => UNCHANGED <<pagedVars, cacheVars, error>>]_vars

\* C19 witness: the rejection came on a later page, after items were accumulated.
C19_Witness ==
  /\ pagedPc = "rejected"
  /\ Len(served) >= 1
  /\ Len(result) >= 1
  /\ served[Len(served)].resp.NextToken # NoToken

\* C20: an enumeration downgrades at most once, from enabled extended
\* attributes; the flag never goes back to enabled inside the enumeration; and
\* a failed listUsers call that does not downgrade is not repeated: its error
\* leaves getAllUsers, the attribute error only once the flag is disabled.
C20_SingleDowngrade ==
  /\ [](Len(downgradedFrom) <= 1)
  /\ [](\A k \in DOMAIN downgradedFrom : downgradedFrom[k].includeCustomAttrs)
  /\ [](pc = "catch" => (error # NoError /\ (error = AttributesError => ~includeCustomAttrs)))
  /\ [][(pc = "getAllUsers" /\ pc' = "getAllUsers" /\ ~includeCustomAttrs) => ~includeCustomAttrs']_vars
  /\ [][(pc = "getAllUsers" /\ usersServed' = usersServed /\ ~Downgrade) =>
          (pc' = "catch" /\ error' # NoError /\ UNCHANGED <<accumedUsers, includeCustomAttrs, pageToken>>)]_vars

\* C20 witness: after its downgrade the enumeration met the attribute error
\* again, which left getAllUsers.
C20_Witness ==
  /\ pc = "catch"
  /\ error = AttributesError
  /\ Len(downgradedFrom) = 1
  /\ ~includeCustomAttrs

\* main is listing or classifying the identity pools, or has described one.
IdentityPhase == pc \in {"listIdentityPools", "identityLoop"} \/ ipIdx >= 1 \/ response.hasProviders

\* C21: identity pools are listed, described and cross-referenced only once the
\* user-pool loop is done with every user pool; the retained set the
\* cross-reference reads is the final keep set, and neither it nor any user
\* pool's verdict changes while the identity pools are classified.
C21_ClassificationOrder ==
  /\ [](IdentityPhase =>
          /\ poolIdx = Len(pools)
          /\ \A i \in 1..Len(pools) : Processed(i)
          /\ realPools = FilterKeep(pools)
          /\ deletePools = FilterDelete(pools))
  /\ [][pc = "identityLoop" => UNCHANGED <<realPools, deletePools, cachedUserPoolIds>>]_vars

\* C21 witness: two user pools, one tagged and one retained, and an identity
\* pool cross-referenced against the retained one.
C21_Witness ==
  /\ LastClassified
  /\ Len(response.CognitoIdentityProviders) = 1
  /\ Len(pools) = 2
  /\ Len(realPools) = 1
  /\ Len(deletePools) = 1

\* The calls that delete a user pool or its domain, and those that delete an
\* identity pool.
UserPoolDeleteOps == {"deleteUserPoolDomain", "deleteUserPool"}

\* The positions of the log that hold a call of op for the resource id.
CallsOf(op, id) == {k \in DOMAIN calls : calls[k].op = op /\ calls[k].id = id}

\* C23: every deleteUserPoolDomain / deleteUserPool call names a pool of the
\* written delete-pools snapshot and every deleteIdentityPool call a pool of the
\* written delete-identity-pools snapshot; no call names a pool of a keep
\* snapshot or a pool whose enumeration failed; each operation is issued at most
\* once for a pool; and no user-pool deletion follows an identity-pool deletion.
C23_DeletesConfined ==
  /\ \A k \in DOMAIN calls :
       /\ calls[k].op \in UserPoolDeleteOps =>
            /\ Written("delete-pools.json")
            /\ calls[k].id \in PoolIds(files["delete-pools.json"][1])
            /\ calls[k].id \notin PoolIds(files["keep-pools.json"][1])
            /\ calls[k].id \notin enumFailed
       /\ calls[k].op = "deleteIdentityPool" =>
            /\ Written("delete-identity-pools.json")
            /\ calls[k].id \in IdentityPoolIds(files["delete-identity-pools.json"][1])
            /\ calls[k].id \notin IdentityPoolIds(files["keep-identity-pools.json"][1])
       /\ calls[k].op \in DeleteOps => Cardinality(CallsOf(calls[k].op, calls[k].id)) = 1
  /\ \A j, k \in DOMAIN calls :
       (calls[j].op = "deleteIdentityPool" /\ calls[k].op \in UserPoolDeleteOps) => k < j

\* C23 witness: the run is over with a user pool and an identity pool deleted,
\* a user pool kept and a user pool whose enumeration failed.
C23_Witness ==
  /\ pc = "done"
  /\ \E k \in DOMAIN calls : calls[k].op = "deleteUserPool"
  /\ \E k \in DOMAIN calls : calls[k].op = "deleteIdentityPool"
  /\ Len(files["keep-pools.json"][1]) >= 1
  /\ enumFailed # {}

\* The two ends of a run: the executor is through every tagged resource, or an
\* unhandled error rejected main.
Completed == pc = "done" /\ delIdx = Len(deletePools) /\ idDelIdx = Len(deleteIdentityPools)

Aborted == pc = "aborted" /\ error # NoError

\* C22: under a backend whose listings end and whose calls settle, a started
\* run reaches one of its two ends.
C22_Termination == <>(Completed \/ Aborted)

\* C22 witness: the run completed after the listing of two user pools, a failed
\* enumeration and the retirement of a user pool and of an identity pool.
C22_Witness ==
  /\ Completed
  /\ enumFailed # {}
  /\ Len(cachedUserPoolIds) = 2
  /\ \E k \in DOMAIN calls : calls[k].op = "deleteUserPool"
  /\ \E k \in DOMAIN calls : calls[k].op = "deleteIdentityPool"

====
